---- MODULE Spec2Model ----
(***************************************************************************)
(* Model of pvs6_influxdb_logger.py (class PVS6InfluxLogger).              *)
(*                                                                         *)
(* Strings.  A Python str is modelled as a sequence of atoms.  An atom is  *)
(* either a one-character string (every comma, equals sign, backslash,     *)
(* whitespace character and digit that matters to the code is its own      *)
(* atom) or a word: a run of ordinary characters that contains none of     *)
(* those.  The string is the concatenation of its atoms.  Where two        *)
(* strings are compared for equality (escape_tag_value) every atom is a    *)
(* single character, so sequence equality is string equality.              *)
(*                                                                         *)
(* None is the record NoneV; a present value v is Some(v).                 *)
(***************************************************************************)
EXTENDS Integers, Sequences, FiniteSets, TLC

(***************************************************************************)
(* Bounds of the model.                                                    *)
(***************************************************************************)
MaxTagLen == 3
MaxPairLen == 2
MaxLineLen == 5
MaxBatch == 3
MaxModelLen == 2
MaxCycles == 2

(***************************************************************************)
(* Generic helpers on sequences.                                           *)
(***************************************************************************)
NoneV == [t |-> "none"]
Some(v) == [t |-> "some", v |-> v]

SeqsUpTo(S, n) == UNION {[1..k -> S] : k \in 0..n}

RECURSIVE Concat(_)
Concat(ss) == IF ss = <<>> THEN <<>> ELSE Head(ss) \o Concat(Tail(ss))

\* sep.join(ss)
RECURSIVE Join(_, _)
Join(ss, sep) ==
    IF ss = <<>> THEN <<>>
    ELSE IF Len(ss) = 1 THEN ss[1]
    ELSE ss[1] \o sep \o Join(Tail(ss), sep)

Contains(s, c) == \E i \in 1..Len(s) : s[i] = c

Whitespace == {" ", "\t", "\n"}
Digits == {"0", "1", "2", "3", "4", "5", "6", "7", "8", "9"}

\* str.strip(): drop leading and trailing whitespace
RECURSIVE LStrip(_)
LStrip(s) == IF s # <<>> /\ Head(s) \in Whitespace THEN LStrip(Tail(s)) ELSE s

RECURSIVE RStrip(_)
RStrip(s) ==
    IF s # <<>> /\ s[Len(s)] \in Whitespace THEN RStrip(SubSeq(s, 1, Len(s) - 1)) ELSE s

Strip(s) == RStrip(LStrip(s))

\* str.split() with no argument: the maximal runs of non-whitespace
RECURSIVE SplitAcc(_, _, _)
SplitAcc(s, cur, acc) ==
    IF s = <<>> THEN (IF cur = <<>> THEN acc ELSE Append(acc, cur))
    ELSE IF Head(s) \in Whitespace
         THEN SplitAcc(Tail(s), <<>>, IF cur = <<>> THEN acc ELSE Append(acc, cur))
         ELSE SplitAcc(Tail(s), Append(cur, Head(s)), acc)

Split(s) == SplitAcc(s, <<>>, <<>>)

\* str.isdigit(): non-empty and every character a digit
IsDigit(s) == s # <<>> /\ \A i \in 1..Len(s) : s[i] \in Digits

\* s.replace(c, r) for a one-character c
RECURSIVE Replace(_, _, _)
Replace(s, c, r) ==
    IF s = <<>> THEN <<>>
    ELSE (IF Head(s) = c THEN r ELSE <<Head(s)>>) \o Replace(Tail(s), c, r)

\* str(int) for a natural number
RECURSIVE IntToStr(_)
IntToStr(n) ==
    LET d == <<"0", "1", "2", "3", "4", "5", "6", "7", "8", "9">>[(n % 10) + 1]
    IN IF n < 10 THEN <<d>> ELSE Append(IntToStr(n \div 10), d)

(***************************************************************************)
(* escape_tag_value, build_tags, format_measurement_line                   *)
(***************************************************************************)
BS == "\\"

\* a slip of the escaper: the backslash is removed instead of doubled
escape_tag_value_DropsBackslash(value) ==
    Replace(Replace(Replace(Replace(value, BS, <<>>),
                            ",", <<BS, ",">>),
                    " ", <<BS, " ">>),
            "=", <<BS, "=">>)

\* a slip of the escaper: the backslash itself is left alone
escape_tag_value_NoBackslash(value) ==
    Replace(Replace(Replace(value, ",", <<BS, ",">>), " ", <<BS, " ">>), "=", <<BS, "=">>)

escape_tag_value(value) ==
    Replace(Replace(Replace(Replace(value, BS, <<BS, BS>>),
                            ",", <<BS, ",">>),
                    " ", <<BS, " ">>),
            "=", <<BS, "=">>)

\* tag_dict is the ordered sequence of <<key, value>> pairs of the dict literal
RECURSIVE build_tags(_)
build_tags(tag_dict) ==
    IF tag_dict = <<>> THEN <<>>
    ELSE LET key == Head(tag_dict)[1]
             value == Head(tag_dict)[2]
             rest == build_tags(Tail(tag_dict))
         IN IF value # <<>> /\ Strip(value) # <<>>
            THEN <<(<<key, "=">> \o escape_tag_value(value))>> \o rest
            ELSE rest

format_measurement_line(measurement, tags, fields, timestamp) ==
    LET tag_part == IF tags # <<>> THEN Join(tags, <<",">>) ELSE <<>>
        tag_separator == IF tags # <<>> THEN <<",">> ELSE <<>>
    IN <<measurement>> \o tag_separator \o tag_part \o <<" ">>
       \o Join(fields, <<",">>) \o <<" ">> \o IntToStr(timestamp)

(***************************************************************************)
(* validate_influxdb_line                                                  *)
(***************************************************************************)
\* the part of s before the first comma (s.split(',', 1)[0])
RECURSIVE BeforeComma(_)
BeforeComma(s) ==
    IF s = <<>> \/ Head(s) = "," THEN <<>> ELSE <<Head(s)>> \o BeforeComma(Tail(s))

\* a slip of the validator: the field part is always the second token
validate_influxdb_line_SecondToken(line) ==
    LET parts == Split(Strip(line))
    IN IF Len(parts) < 2 THEN FALSE
       ELSE IF BeforeComma(parts[1]) = <<>> THEN FALSE
       ELSE Contains(parts[2], "=")

\* a slip of the validator: the '=' test on the field part is dropped
validate_influxdb_line_NoEq(line) ==
    LET parts == Split(Strip(line))
    IN IF Len(parts) < 2 THEN FALSE
       ELSE BeforeComma(parts[1]) # <<>>

validate_influxdb_line(line) ==
    LET parts == Split(Strip(line))
    IN IF Len(parts) < 2 THEN FALSE
       ELSE LET measurement == BeforeComma(parts[1])
                field_part ==
                    IF Len(parts) > 2 /\ IsDigit(parts[Len(parts)])
                    THEN Join(SubSeq(parts, 2, Len(parts) - 1), <<" ">>)
                    ELSE parts[2]
            IN IF measurement = <<>> THEN FALSE
               ELSE IF field_part = <<>> \/ ~Contains(field_part, "=") THEN FALSE
               ELSE TRUE

(***************************************************************************)
(* format_number and the rendering of a field value.                       *)
(*                                                                         *)
(* A float is [t |-> "float", nan, neg, ip, fp]: sign, integer digits and  *)
(* fraction digits of the decimal literal that float() read.  The model    *)
(* covers literals of at most 15 significant digits whose magnitude is 0   *)
(* or in [1e-4, 1e16), where repr() prints the shortest decimal in         *)
(* positional notation; the literals of the model are over the characters  *)
(* digit, '.', '+', '-', whitespace and letters (no exponent part).        *)
(***************************************************************************)
AllDigits(s) == \A i \in 1..Len(s) : s[i] \in Digits

LowerChar(c) ==
    CASE c = "P" -> "p" [] c = "C" -> "c" [] c = "N" -> "n" [] c = "A" -> "a"
      [] c = "I" -> "i" [] c = "F" -> "f" [] OTHER -> c

Lower(s) == [i \in 1..Len(s) |-> LowerChar(s[i])]

\* index of the first '.' of s, or 0
RECURSIVE DotPos(_, _)
DotPos(s, i) == IF i > Len(s) THEN 0 ELSE IF s[i] = "." THEN i ELSE DotPos(s, i + 1)

\* float(s) for a str s: NoneV stands for ValueError
ParseFloat(s) ==
    LET b == Strip(s)
        signed == b # <<>> /\ Head(b) \in {"+", "-"}
        neg == b # <<>> /\ Head(b) = "-"
        u == IF signed THEN Tail(b) ELSE b
        dot == DotPos(u, 1)
        ip == IF dot = 0 THEN u ELSE SubSeq(u, 1, dot - 1)
        fp == IF dot = 0 THEN <<>> ELSE SubSeq(u, dot + 1, Len(u))
    IN IF Lower(u) = <<"n", "a", "n">>
       THEN [t |-> "float", nan |-> TRUE, neg |-> neg, ip |-> <<>>, fp |-> <<>>]
       ELSE IF AllDigits(ip) /\ AllDigits(fp) /\ (ip # <<>> \/ fp # <<>>)
       THEN [t |-> "float", nan |-> FALSE, neg |-> neg, ip |-> ip, fp |-> fp]
       ELSE NoneV

\* a slip of the coercion: a value that is no number is written as 0.0
format_number_Zero(value) ==
    LET zero == [t |-> "float", nan |-> FALSE, neg |-> FALSE, ip |-> <<"0">>, fp |-> <<>>]
    IN IF value = NoneV THEN NoneV
       ELSE IF value.v = <<>> \/ value.v = <<"n", "a", "n">> THEN zero
       ELSE IF ParseFloat(value.v) = NoneV THEN zero
       ELSE ParseFloat(value.v)

\* value is NoneV (data.get found nothing) or Some(str)
format_number(value) ==
    IF value = NoneV THEN NoneV
    ELSE IF value.v = <<>> \/ value.v = <<"n", "a", "n">> THEN NoneV
    ELSE ParseFloat(value.v)

RECURSIVE StripLeadingZeros(_)
StripLeadingZeros(s) ==
    IF Len(s) > 0 /\ Head(s) = "0" THEN StripLeadingZeros(Tail(s)) ELSE s

RECURSIVE StripTrailingZeros(_)
StripTrailingZeros(s) ==
    IF Len(s) > 0 /\ s[Len(s)] = "0"
    THEN StripTrailingZeros(SubSeq(s, 1, Len(s) - 1)) ELSE s

\* f'{value}' for a float or an int
FormatValue(x) ==
    IF x.t = "int" THEN IntToStr(x.n)
    ELSE IF x.nan THEN <<"n", "a", "n">>
    ELSE LET i == StripLeadingZeros(x.ip)
             f == StripTrailingZeros(x.fp)
         IN (IF x.neg THEN <<"-">> ELSE <<>>)
            \o (IF i = <<>> THEN <<"0">> ELSE i) \o <<".">>
            \o (IF f = <<>> THEN <<"0">> ELSE f)

PyInt(n) == [t |-> "int", n |-> n]

\* for key, value in field_data.items(): if value is not None: append f'{key}={value}'
RECURSIVE FieldList(_)
FieldList(field_data) ==
    IF field_data = <<>> THEN <<>>
    ELSE LET key == Head(field_data)[1]
             value == Head(field_data)[2]
             rest == FieldList(Tail(field_data))
         IN IF value # NoneV
            THEN <<(<<key, "=">> \o FormatValue(value))>> \o rest
            ELSE rest

(***************************************************************************)
(* The snapshot.  A key '/a/b/c' is the sequence <<"a", "b", "c">> of its   *)
(* path segments; a dict snapshot is a function from keys to str values.   *)
(***************************************************************************)
\* data.get(key): NoneV when the key is missing
Get(data, key) == IF key \in DOMAIN data THEN Some(data[key]) ELSE NoneV

\* data.get(key, '')
GetStr(data, key) == IF key \in DOMAIN data THEN data[key] ELSE <<>>

\* position of the first occurrence of /sys/devices/<class>/ in key, or 0
RECURSIVE PrefixPos(_, _, _)
PrefixPos(key, class, i) ==
    IF i + 3 > Len(key) THEN 0
    ELSE IF key[i] = "sys" /\ key[i + 1] = "devices" /\ key[i + 2] = class THEN i
    ELSE PrefixPos(key, class, i + 1)

\* the index segments found under /sys/devices/<class>/<idx>/...
device_indices(data, class) ==
    {key[PrefixPos(key, class, 1) + 3] :
        key \in {k \in DOMAIN data :
                    /\ PrefixPos(k, class, 1) > 0
                    /\ Len(k) >= PrefixPos(k, class, 1) + 4}}

DevKey(class, idx, leaf) == <<"sys", "devices", class, idx, leaf>>

\* a slip of the mode rule: only a lower-case trailing letter is recognised
meter_mode_CaseSensitive(model) ==
    IF model # <<>> /\ model[Len(model)] = "p" THEN <<"production">>
    ELSE IF model # <<>> /\ model[Len(model)] = "c" THEN <<"consumption">>
    ELSE <<"unknown">>

\* the model's last character is its last atom
meter_mode(model) ==
    IF model # <<>> /\ LowerChar(model[Len(model)]) = "p" THEN <<"production">>
    ELSE IF model # <<>> /\ LowerChar(model[Len(model)]) = "c" THEN <<"consumption">>
    ELSE <<"unknown">>

InverterFieldKeys ==
    << <<"freq_hz", "freqHz">>, <<"i_3phsum_a", "i3phsumA">>, <<"i_mppt1_a", "iMppt1A">>,
       <<"ltea_3phsum_kwh", "ltea3phsumKwh">>, <<"p_3phsum_kw", "p3phsumKw">>,
       <<"p_mppt1_kw", "pMppt1Kw">>, <<"t_htsnk_degc", "tHtsnkDegc">>,
       <<"v_mppt1_v", "vMppt1V">>, <<"vln_3phavg_v", "vln3phavgV">> >>

MeterFieldKeys ==
    << <<"ct_scl_fctr", "ctSclFctr">>, <<"freq_hz", "freqHz">>, <<"i1_a", "i1A">>,
       <<"i2_a", "i2A">>, <<"neg_ltea_3phsum_kwh", "negLtea3phsumKwh">>,
       <<"net_ltea_3phsum_kwh", "netLtea3phsumKwh">>, <<"p_3phsum_kw", "p3phsumKw">>,
       <<"pos_ltea_3phsum_kwh", "posLtea3phsumKwh">>, <<"q_3phsum_kvar", "q3phsumKvar">>,
       <<"s_3phsum_kva", "s3phsumKva">>, <<"tot_pf_rto", "totPfRto">>,
       <<"v12_v", "v12V">>, <<"v1n_v", "v1nV">>, <<"v2n_v", "v2nV">> >>

\* the field_data dict of one device: every named key through format_number
DeviceFieldData(data, class, idx, table) ==
    [i \in 1..Len(table) |->
        <<table[i][1], format_number(Get(data, DevKey(class, idx, table[i][2])))>>]

Flag(data, key) == IF Get(data, key) = Some(<<"1">>) THEN <<"1">> ELSE <<"0">>

comm_interface_line(data, timestamp) ==
    format_measurement_line("pvs_comm_interface",
        build_tags(<< <<"interface", GetStr(data, <<"sys", "info", "active_interface">>)>>,
                      <<"link", IF Get(data, <<"net", "sta0", "state">>) = Some(<<"online">>)
                                THEN <<"connected">> ELSE <<"disconnected">> >>,
                      <<"mode", <<"wan">> >>,
                      <<"ssid", GetStr(data, <<"sys", "info", "ssid">>)>> >>),
        << <<"internet", "=">> \o Flag(data, <<"sys", "toggle_cell", "broadband_connected">>),
           <<"sms", "=", "0">> >>,
        timestamp)

comm_system_line(data, timestamp) ==
    format_measurement_line("pvs_comm_system",
        build_tags(<< <<"interface", GetStr(data, <<"sys", "info", "active_interface">>)>>,
                      <<"interface_name", GetStr(data, <<"sys", "info", "active_interface">>)>> >>),
        << <<"internet", "=">> \o Flag(data, <<"sys", "toggle_cell", "broadband_connected">>),
           <<"sms", "=">> \o Flag(data, <<"sys", "toggle_cell", "cell_connected">>) >>,
        timestamp)

\* a slip of the builder: a device with a serial and no model is emitted
RECURSIVE device_state_lines_SerialOnly(_, _, _, _, _)
device_state_lines_SerialOnly(data, class, device_type, order, timestamp) ==
    IF order = <<>> THEN <<>>
    ELSE LET idx == Head(order)
             serial == GetStr(data, DevKey(class, idx, "sn"))
             model == GetStr(data, DevKey(class, idx, "prodMdlNm"))
             rest == device_state_lines_SerialOnly(data, class, device_type,
                                                   Tail(order), timestamp)
         IN IF serial # <<>>
            THEN <<format_measurement_line("pvs_device_state",
                        build_tags(<< <<"device_type", device_type>>,
                                      <<"model", model>>,
                                      <<"serial", serial>> >>),
                        << <<"state", "=", "1">> >>,
                        timestamp)>> \o rest
            ELSE rest

\* the pvs_device_state lines of one device class, in iteration order
RECURSIVE device_state_lines(_, _, _, _, _)
device_state_lines(data, class, device_type, order, timestamp) ==
    IF order = <<>> THEN <<>>
    ELSE LET idx == Head(order)
             serial == GetStr(data, DevKey(class, idx, "sn"))
             model == GetStr(data, DevKey(class, idx, "prodMdlNm"))
             rest == device_state_lines(data, class, device_type, Tail(order), timestamp)
         IN IF serial # <<>> /\ model # <<>>
            THEN <<format_measurement_line("pvs_device_state",
                        build_tags(<< <<"device_type", device_type>>,
                                      <<"model", model>>,
                                      <<"serial", serial>> >>),
                        << <<"state", "=", "1">> >>,
                        timestamp)>> \o rest
            ELSE rest

GridProfileName == <<"IEEE-1547-2018", " ", "CA", " ", "Rule21", " ", "v01.0">>
GridProfileId == <<"0bbe89271171935e527489a181960fd15a3e9b5c">>

grid_profile_line(timestamp) ==
    format_measurement_line("pvs_grid_profile",
        build_tags(<< <<"active_id", GridProfileId>>,
                      <<"active_name", GridProfileName>>,
                      <<"pending_id", GridProfileId>>,
                      <<"pending_name", GridProfileName>>,
                      <<"status", <<"success">> >>,
                      <<"supported_by", <<"ALL">> >> >>),
        << <<"percent", "=", "1", "0", "0">> >>,
        timestamp)

\* a slip of the builder: the record is appended without the 'if fields' test
RECURSIVE inverter_lines_NoGuard(_, _, _)
inverter_lines_NoGuard(data, order, timestamp) ==
    IF order = <<>> THEN <<>>
    ELSE LET idx == Head(order)
             serial == GetStr(data, DevKey("inverter", idx, "sn"))
             model == GetStr(data, DevKey("inverter", idx, "prodMdlNm"))
             rest == inverter_lines_NoGuard(data, Tail(order), timestamp)
             inverter_fields ==
                 FieldList(DeviceFieldData(data, "inverter", idx, InverterFieldKeys))
         IN IF serial # <<>> /\ model # <<>>
            THEN <<format_measurement_line("pvs_inverter",
                        build_tags(<< <<"device_type", <<"Inverter">> >>,
                                      <<"model", model>>,
                                      <<"serial", serial>> >>),
                        inverter_fields, timestamp)>> \o rest
            ELSE rest

RECURSIVE inverter_lines(_, _, _)
inverter_lines(data, order, timestamp) ==
    IF order = <<>> THEN <<>>
    ELSE LET idx == Head(order)
             serial == GetStr(data, DevKey("inverter", idx, "sn"))
             model == GetStr(data, DevKey("inverter", idx, "prodMdlNm"))
             rest == inverter_lines(data, Tail(order), timestamp)
             inverter_fields ==
                 FieldList(DeviceFieldData(data, "inverter", idx, InverterFieldKeys))
         IN IF serial # <<>> /\ model # <<>> /\ inverter_fields # <<>>
            THEN <<format_measurement_line("pvs_inverter",
                        build_tags(<< <<"device_type", <<"Inverter">> >>,
                                      <<"model", model>>,
                                      <<"serial", serial>> >>),
                        inverter_fields, timestamp)>> \o rest
            ELSE rest

RECURSIVE power_meter_lines(_, _, _)
power_meter_lines(data, order, timestamp) ==
    IF order = <<>> THEN <<>>
    ELSE LET idx == Head(order)
             serial == GetStr(data, DevKey("meter", idx, "sn"))
             model == GetStr(data, DevKey("meter", idx, "prodMdlNm"))
             rest == power_meter_lines(data, Tail(order), timestamp)
             meter_fields ==
                 FieldList(DeviceFieldData(data, "meter", idx, MeterFieldKeys))
         IN IF serial # <<>> /\ model # <<>> /\ meter_fields # <<>>
            THEN <<format_measurement_line("pvs_power_meter",
                        build_tags(<< <<"device_type", <<"Power", " ", "Meter">> >>,
                                      <<"model", model>>,
                                      <<"serial", serial>>,
                                      <<"mode", meter_mode(model)>> >>),
                        meter_fields, timestamp)>> \o rest
            ELSE rest

InfoNum(data, leaf) == format_number(Get(data, <<"sys", "info", leaf>>))

\* a slip of the builder: the session_start fields without the constant ok
session_start_lines_NoOk(data, timestamp) ==
    LET fwrev == GetStr(data, <<"sys", "info", "fwrev">>)
        fwver == IF fwrev # <<>> THEN BeforeComma(fwrev) ELSE <<>>
        session_start_fields ==
            FieldList(<< <<"build", InfoNum(data, "build")>>,
                         <<"easicver", InfoNum(data, "easicver")>>,
                         <<"scbuild", InfoNum(data, "scbuild")>>,
                         <<"scver", InfoNum(data, "scver")>>,
                         <<"wnmodel", InfoNum(data, "wnmodel")>>,
                         <<"wnserial", InfoNum(data, "wnserial")>>,
                         <<"wnver", InfoNum(data, "wnver")>> >>)
    IN IF session_start_fields # <<>>
       THEN <<format_measurement_line("pvs_session_start",
                   build_tags(<< <<"model", GetStr(data, <<"sys", "info", "model">>)>>,
                                 <<"serial", GetStr(data, <<"sys", "info", "serialnum">>)>>,
                                 <<"fwver", fwver>>,
                                 <<"swver", GetStr(data, <<"sys", "info", "sw_rev">>)>> >>),
                   session_start_fields, timestamp)>>
       ELSE <<>>

session_start_lines(data, timestamp) ==
    LET fwrev == GetStr(data, <<"sys", "info", "fwrev">>)
        fwver == IF fwrev # <<>> THEN BeforeComma(fwrev) ELSE <<>>
        session_start_fields ==
            FieldList(<< <<"build", InfoNum(data, "build")>>,
                         <<"easicver", InfoNum(data, "easicver")>>,
                         <<"ok", PyInt(1)>>,
                         <<"scbuild", InfoNum(data, "scbuild")>>,
                         <<"scver", InfoNum(data, "scver")>>,
                         <<"wnmodel", InfoNum(data, "wnmodel")>>,
                         <<"wnserial", InfoNum(data, "wnserial")>>,
                         <<"wnver", InfoNum(data, "wnver")>> >>)
    IN IF session_start_fields # <<>>
       THEN <<format_measurement_line("pvs_session_start",
                   build_tags(<< <<"model", GetStr(data, <<"sys", "info", "model">>)>>,
                                 <<"serial", GetStr(data, <<"sys", "info", "serialnum">>)>>,
                                 <<"fwver", fwver>>,
                                 <<"swver", GetStr(data, <<"sys", "info", "sw_rev">>)>> >>),
                   session_start_fields, timestamp)>>
       ELSE <<>>

supervisor_lines(data, timestamp) ==
    LET supervisor_fields ==
            FieldList(<< <<"dl_comm_err", InfoNum(data, "dl_comm_err")>>,
                         <<"dl_cpu_load", InfoNum(data, "cpu_usage")>>,
                         <<"dl_err_count", InfoNum(data, "dl_err_count")>>,
                         <<"dl_flash_avail", InfoNum(data, "flash_usage")>>,
                         <<"dl_mem_used", InfoNum(data, "ram_usage")>>,
                         <<"dl_scan_time", PyInt(10)>>,
                         <<"dl_skipped_scans", PyInt(0)>>,
                         <<"dl_untransmitted", PyInt(0)>>,
                         <<"dl_uptime", InfoNum(data, "uptime")>> >>)
    IN IF supervisor_fields # <<>>
       THEN <<format_measurement_line("pvs_supervisor",
                   build_tags(<< <<"device_type", <<"PVS">> >>,
                                 <<"model", <<"PV", " ", "Supervisor", " ">>
                                            \o GetStr(data, <<"sys", "info", "model">>)>>,
                                 <<"serial", GetStr(data, <<"sys", "info", "serialnum">>)>> >>),
                   supervisor_fields, timestamp)>>
       ELSE <<>>

\* meter_order / inverter_order: the order in which the set of indices is
\* iterated (the same set object is iterated twice, in the same order)
process_data(data, timestamp, meter_order, inverter_order) ==
    << comm_interface_line(data, timestamp), comm_system_line(data, timestamp) >>
    \o device_state_lines(data, "meter", <<"Power", " ", "Meter">>, meter_order, timestamp)
    \o device_state_lines(data, "inverter", <<"Inverter">>, inverter_order, timestamp)
    \o << grid_profile_line(timestamp) >>
    \o inverter_lines(data, inverter_order, timestamp)
    \o power_meter_lines(data, meter_order, timestamp)
    \o session_start_lines(data, timestamp)
    \o supervisor_lines(data, timestamp)

\* the enumerations of a finite set
Orders(S) == {o \in [1..Cardinality(S) -> S] : \A e \in S : \E i \in DOMAIN o : o[i] = e}

(***************************************************************************)
(* write_to_influxdb up to the POST: what the call decides for a batch.    *)
(***************************************************************************)
InvalidLines(batch) == {i \in 1..Len(batch) : ~validate_influxdb_line(batch[i])}

\* a slip of the writer: the invalid lines are dropped and the rest is sent
write_to_influxdb_Partial(batch) ==
    LET valid == SelectSeq(batch, validate_influxdb_line)
    IN IF valid = <<>> THEN [post |-> FALSE, payload |-> <<>>]
       ELSE [post |-> TRUE, payload |-> Join(valid, <<"\n">>)]

write_to_influxdb(batch) ==
    IF batch = <<>> THEN [post |-> FALSE, payload |-> <<>>]
    ELSE IF InvalidLines(batch) # {} THEN [post |-> FALSE, payload |-> <<>>]
    ELSE [post |-> TRUE, payload |-> Join(batch, <<"\n">>)]

(***************************************************************************)
(* State.                                                                  *)
(***************************************************************************)
VARIABLES
    pc,             \* position of the running call
    mode,           \* which entry point runs: "once", "continuous", or a direct call
    default_serial, \* self.default_serial
    pvs_serial,     \* self.pvs_serial
    auth_token,     \* self.auth_token
    calls,          \* the network calls of the current cycle, in order
    result,         \* what the last run_once returned: "none", "true", "false", "raised"
    cycles,         \* cycles started (saturates at MaxCycles)
    sleeps,         \* time.sleep calls begun since the current cycle started
    stop_logged,    \* "Stopping data collection..." was logged
    data,           \* the snapshot body of the current cycle
    lines,          \* the batch built by process_data / passed to write_to_influxdb
    post_status,    \* outcome of the POST of the current batch
    interrupted,    \* a KeyboardInterrupt was raised
    serial_outcome, \* how the serial-number request of the current cycle ended
    auth_result,    \* what authenticate() returned in the current cycle
    arg,            \* argument of a directly called pure function
    out,            \* its result
    out2            \* the result of applying it again

vars == <<pc, mode, default_serial, pvs_serial, auth_token, calls, result, cycles,
          sleeps, stop_logged, data, lines, post_status, interrupted, serial_outcome,
          auth_result, arg, out, out2>>

NullBody == [kind |-> "null"]

\* the state right after PVS6InfluxLogger.__init__
Constructed ==
    /\ pvs_serial = NoneV
    /\ auth_token = NoneV
    /\ calls = <<>>
    /\ result = "none"
    /\ cycles = 0
    /\ sleeps = 0
    /\ stop_logged = FALSE
    /\ post_status = "none"
    /\ interrupted = FALSE
    /\ serial_outcome = "none"
    /\ auth_result = "none"
    /\ out = NoneV
    /\ out2 = NoneV

(***************************************************************************)
(* escape_tag_value called directly on every tag value over TagAlphabet.   *)
(***************************************************************************)
TagAlphabet == {",", "=", " ", BS, "a"}
TagValues == SeqsUpTo(TagAlphabet, MaxTagLen)

InitEscape ==
    /\ Constructed
    /\ mode = "escape"
    /\ default_serial = NoneV
    /\ pc = "call"
    /\ data = NullBody
    /\ lines = <<>>
    /\ arg \in TagValues

Escape ==
    /\ mode = "escape"
    /\ pc = "call"
    /\ out' = Some(escape_tag_value(arg))
    /\ pc' = "escaped"
    /\ UNCHANGED <<mode, default_serial, pvs_serial, auth_token, calls, result, cycles,
                   sleeps, stop_logged, data, lines, post_status, interrupted, serial_outcome,
                   auth_result, arg, out2>>

EscapeAgain ==
    /\ mode = "escape"
    /\ pc = "escaped"
    /\ out2' = Some(escape_tag_value(out.v))
    /\ pc' = "done"
    /\ UNCHANGED <<mode, default_serial, pvs_serial, auth_token, calls, result, cycles,
                   sleeps, stop_logged, data, lines, post_status, interrupted, serial_outcome,
                   auth_result, arg, out>>

NextEscape == Escape \/ EscapeAgain

SpecEscape == InitEscape /\ [][NextEscape]_vars

(***************************************************************************)
(* escape_tag_value called directly on two tag values, each of at most     *)
(* MaxPairLen characters over TagAlphabet.                                 *)
(***************************************************************************)
PairValues == SeqsUpTo(TagAlphabet, MaxPairLen)

InitEscapePair ==
    /\ Constructed
    /\ mode = "escape_pair"
    /\ default_serial = NoneV
    /\ pc = "call"
    /\ data = NullBody
    /\ lines = <<>>
    /\ arg \in PairValues \X PairValues

EscapePair ==
    /\ mode = "escape_pair"
    /\ pc = "call"
    /\ out' = Some(<<escape_tag_value(arg[1]), escape_tag_value(arg[2])>>)
    /\ pc' = "done"
    /\ UNCHANGED <<mode, default_serial, pvs_serial, auth_token, calls, result, cycles,
                   sleeps, stop_logged, data, lines, post_status, interrupted, serial_outcome,
                   auth_result, arg, out2>>

NextEscapePair == EscapePair

SpecEscapePair == InitEscapePair /\ [][NextEscapePair]_vars

(***************************************************************************)
(* validate_influxdb_line called directly on every line over LineAlphabet  *)
(* and on the line of the self test.                                       *)
(***************************************************************************)
LineAlphabet == {"m", ",", "=", " ", "1"}
SampleLine ==
    <<"pvs_test_measurement", " ", "test_field", "=", "1", " ",
      "1", "7", "0", "0", "0", "0", "0", "0", "0", "0">>
ValidateInputs == SeqsUpTo(LineAlphabet, MaxLineLen) \cup {SampleLine}

InitValidate ==
    /\ Constructed
    /\ mode = "validate"
    /\ default_serial = NoneV
    /\ pc = "call"
    /\ data = NullBody
    /\ lines = <<>>
    /\ arg \in ValidateInputs

Validate ==
    /\ mode = "validate"
    /\ pc = "call"
    /\ out' = Some(validate_influxdb_line(arg))
    /\ pc' = "done"
    /\ UNCHANGED <<mode, default_serial, pvs_serial, auth_token, calls, result, cycles,
                   sleeps, stop_logged, data, lines, post_status, interrupted, serial_outcome,
                   auth_result, arg, out2>>

NextValidate == Validate

SpecValidate == InitValidate /\ [][NextValidate]_vars

(***************************************************************************)
(* write_to_influxdb called directly on every batch of at most MaxBatch    *)
(* lines drawn from BatchLines (two valid lines, two malformed ones).      *)
(***************************************************************************)
BatchLines ==
    { <<"m", " ", "f", "=", "1", " ", "7">>,
      <<"m", ",", "t", "=", "a", BS, " ", "b", " ", "f", "=", "2", " ", "7">>,
      <<"m", " ", "7">>,
      <<",", "t", "=", "a", " ", "f", "=", "1", " ", "7">> }
Batches == SeqsUpTo(BatchLines, MaxBatch)

PostOutcomes == {"ok", "http_error", "exception"}

InitWrite ==
    /\ Constructed
    /\ mode = "write"
    /\ default_serial = NoneV
    /\ pc = "call"
    /\ data = NullBody
    /\ arg = <<>>
    /\ lines \in Batches

\* write_to_influxdb from its entry to the POST (or to its early return)
WriteCall ==
    /\ mode = "write"
    /\ pc = "call"
    /\ LET w == write_to_influxdb(lines)
       IN IF w.post
          THEN /\ calls' = Append(calls, [op |-> "post", payload |-> w.payload])
               /\ pc' = "post_wait"
          ELSE /\ calls' = calls
               /\ pc' = "returned"
    /\ UNCHANGED <<mode, default_serial, pvs_serial, auth_token, result, cycles,
                   sleeps, stop_logged, data, lines, post_status, interrupted,
                   serial_outcome, auth_result, arg, out, out2>>

\* the POST answers (204, an HTTP error status, or a network exception); every
\* outcome is logged and write_to_influxdb returns None
WritePostResponse ==
    /\ mode = "write"
    /\ pc = "post_wait"
    /\ \E r \in PostOutcomes : post_status' = r
    /\ pc' = "returned"
    /\ UNCHANGED <<mode, default_serial, pvs_serial, auth_token, calls, result, cycles,
                   sleeps, stop_logged, data, lines, interrupted, serial_outcome,
                   auth_result, arg, out, out2>>

NextWrite == WriteCall \/ WritePostResponse

SpecWrite == InitWrite /\ [][NextWrite]_vars

(***************************************************************************)
(* process_data called directly (as test_real_data does) on the snapshots  *)
(* of BuildSnapshots.                                                      *)
(***************************************************************************)
\* the dict with the given <<key, value>> pairs; a pair whose value is NoneV
\* is a key the snapshot does not have
MkDict(pairs) ==
    LET present == {q \in pairs : q[2] # NoneV}
    IN [k \in {q[1] : q \in present} |-> (CHOOSE q \in present : q[1] = k)[2].v]

ModelAlphabet == {"p", "P", "c", "C", "x"}
ModelChoices == {NoneV} \cup {Some(m) : m \in SeqsUpTo(ModelAlphabet, MaxModelLen)}
SerialChoices == {NoneV, Some(<<>>), Some(<<"PVS6M23131084p">>)}
\* missing, "", "nan", "NaN" and a number
NumberChoices ==
    {NoneV, Some(<<>>), Some(<<"n", "a", "n">>), Some(<<"N", "a", "N">>),
     Some(<<"0", ".", "0", "1", "3", "7", "7", "6">>)}
InverterNumberChoices == {NoneV, Some(<<"n", "a", "n">>), Some(<<"-", ".", "5">>)}
\* missing, or a model name with every character the escaper and the splitter treat
InfoModelChoices == {NoneV, Some(<<"PVS", " ", "=", ",", "\t", BS, "6">>)}
Timestamps == {7, 1700000000}

\* a second meter, with a fixed consumption model
SecondMeter ==
    { <<DevKey("meter", "1", "sn"), Some(<<"PVS6M23131084c">>)>>,
      <<DevKey("meter", "1", "prodMdlNm"), Some(<<"PVS6M0400", "c">>)>>,
      <<DevKey("meter", "1", "v12V"), Some(<<"2", "4", "0">>)>> }

BuildSnapshot(m_sn, m_model, m_kw, i_model, i_hz, info_model, second) ==
    MkDict({ <<DevKey("meter", "0", "sn"), m_sn>>,
             <<DevKey("meter", "0", "prodMdlNm"), m_model>>,
             <<DevKey("meter", "0", "p3phsumKw"), m_kw>>,
             <<DevKey("inverter", "0", "sn"), Some(<<"E00122150014918">>)>>,
             <<DevKey("inverter", "0", "prodMdlNm"), i_model>>,
             <<DevKey("inverter", "0", "freqHz"), i_hz>>,
             <<DevKey("inverter", "0", "tHtsnkDegc"), Some(<<"x">>)>>,
             <<(<<"sys", "info", "model">>), info_model>>,
             <<(<<"sys", "info", "fwrev">>), Some(<<"2025", ",", " ", "Build", " ", "61839">>)>>,
             <<(<<"net", "sta0", "state">>), Some(<<"online">>)>> }
           \cup (IF second THEN SecondMeter ELSE {}))

\* the sample snapshot of test_real_data
SampleData ==
    MkDict({ <<(<<"sys", "info", "serialnum">>), Some(<<"ZT231385000549F1084">>)>>,
             <<(<<"sys", "info", "model">>), Some(<<"PVS6">>)>>,
             <<(<<"sys", "info", "active_interface">>), Some(<<"sta0">>)>>,
             <<(<<"sys", "info", "ssid">>), Some(<<"SunPower13084">>)>>,
             <<(<<"sys", "toggle_cell", "broadband_connected">>), Some(<<"1">>)>>,
             <<(<<"sys", "toggle_cell", "cell_connected">>), Some(<<"0">>)>>,
             <<(<<"net", "sta0", "state">>), Some(<<"online">>)>>,
             <<DevKey("meter", "0", "sn"), Some(<<"PVS6M23131084p">>)>>,
             <<DevKey("meter", "0", "prodMdlNm"), Some(<<"PVS6M0400", "p">>)>>,
             <<DevKey("meter", "0", "ctSclFctr"), Some(<<"5", "0">>)>>,
             <<DevKey("meter", "0", "freqHz"),
               Some(<<"5", "9", ".", "9", "9", "2", "9", "7", "3">>)>>,
             <<DevKey("meter", "0", "p3phsumKw"),
               Some(<<"0", ".", "0", "1", "3", "7", "7", "6">>)>>,
             <<DevKey("inverter", "0", "sn"), Some(<<"E00122150014918">>)>>,
             <<DevKey("inverter", "0", "prodMdlNm"), Some(<<"AC_Module_Type_H">>)>>,
             <<DevKey("inverter", "0", "freqHz"),
               Some(<<"5", "9", ".", "9", "8", "0", "0", "0", "0">>)>>,
             <<DevKey("inverter", "0", "p3phsumKw"),
               Some(<<"0", ".", "0", "0", "0", "2", "6", "5">>)>> })

EmptyDict == MkDict({})

InitBuild ==
    /\ Constructed
    /\ mode = "build"
    /\ default_serial = NoneV
    /\ pc = "call"
    /\ lines = <<>>
    /\ arg = 1700000000
    /\ \/ \E m_sn \in SerialChoices, m_model \in ModelChoices, m_kw \in NumberChoices,
             i_model \in {NoneV, Some(<<"AC_Module_Type_H">>)},
             i_hz \in InverterNumberChoices, info_model \in InfoModelChoices,
             second \in BOOLEAN :
             data = [kind |-> "dict",
                     d |-> BuildSnapshot(m_sn, m_model, m_kw, i_model, i_hz, info_model, second)]
       \/ data \in {[kind |-> "dict", d |-> SampleData], [kind |-> "dict", d |-> EmptyDict]}

\* lines = self.process_data(data); arg is int(time.time())
Build ==
    /\ mode = "build"
    /\ pc = "call"
    /\ \E mo \in Orders(device_indices(data.d, "meter")),
          io \in Orders(device_indices(data.d, "inverter")) :
          lines' = process_data(data.d, arg, mo, io)
    /\ pc' = "built"
    /\ UNCHANGED <<mode, default_serial, pvs_serial, auth_token, calls, result, cycles,
                   sleeps, stop_logged, data, post_status, interrupted, serial_outcome,
                   auth_result, arg, out, out2>>

NextBuild == Build

SpecBuild == InitBuild /\ [][NextBuild]_vars

(***************************************************************************)
(* The driver: run_once (main --once) and run_continuous, with             *)
(* authenticate, get_all_data, process_data and write_to_influxdb inlined  *)
(* where run_once calls them.  The driver stops at each network request    *)
(* and at time.sleep; the answer of the request is the input of the next   *)
(* step.                                                                   *)
(***************************************************************************)
\* Python truthiness of an optional str
Truthy(x) == x # NoneV /\ x.v # <<>>

\* s[-n:]
LastN(s, n) == IF Len(s) <= n THEN s ELSE SubSeq(s, Len(s) - n + 1, Len(s))

DefaultSerials == {NoneV, Some(<<>>), Some(<<"Z", "T", "0", "0", "F", "1", "0", "8", "9">>)}

\* answers to GET /vars?name=/sys/info/serialnum: a non-200 status, a 200
\* without "values" (or with an empty list), a 200 with a value (a str or
\* null), an exception (timeout, connection error, undecodable body)
SerialAnswers ==
    {[kind |-> "non200"], [kind |-> "no_values"], [kind |-> "exception"]}
    \cup {[kind |-> "value", v |-> x] :
            x \in {NoneV, Some(<<>>), Some(<<"A", "B", "C">>),
                   Some(<<"Z", "T", "5", "4", "9", "F", "1", "0", "8", "5">>)}}

LoginAnswers == {"non200", "no_session", "session", "exception"}

\* bodies of a 200 answer to GET /vars?match=/&fmt=obj: a JSON object, a
\* non-empty JSON array, null
SnapshotBodies ==
    {[kind |-> "dict", d |-> SampleData], [kind |-> "dict", d |-> EmptyDict],
     [kind |-> "list", n |-> 1], NullBody}

SnapshotAnswers ==
    {[kind |-> "non200"], [kind |-> "exception"]}
    \cup {[kind |-> "ok", body |-> b] : b \in SnapshotBodies}

\* 'not data'
Falsy(body) ==
    \/ body.kind = "null"
    \/ body.kind = "dict" /\ DOMAIN body.d = {}
    \/ body.kind = "list" /\ body.n = 0

Init ==
    /\ Constructed
    /\ mode \in {"once", "continuous"}
    /\ default_serial \in DefaultSerials
    /\ pc = "start"
    /\ data = NullBody
    /\ lines = <<>>
    /\ arg = <<>>

Waiting == {"serial_wait", "login_wait", "snapshot_wait", "post_wait"}

\* a slip of the loop: no 'except Exception' around the cycle
Finish_NoExceptionHandler(res) ==
    /\ result' = res
    /\ IF mode = "once" \/ res = "raised"
       THEN /\ pc' = IF res = "raised" THEN "raised" ELSE "returned"
            /\ sleeps' = sleeps
       ELSE /\ pc' = "sleep"
            /\ sleeps' = sleeps + 1

\* run_once ends with res ("true", "false" or "raised").  Under main --once
\* that ends the call; in run_continuous the loop goes on to time.sleep, in
\* the try block after a return and in the 'except Exception' handler after
\* an exception.
Finish(res) ==
    /\ result' = res
    /\ IF mode = "once"
       THEN /\ pc' = IF res = "raised" THEN "raised" ELSE "returned"
            /\ sleeps' = sleeps
       ELSE /\ pc' = IF res = "raised" THEN "sleep_exc" ELSE "sleep"
            /\ sleeps' = sleeps + 1

\* run_once is entered and authenticate issues the serial-number request
StartCycle ==
    /\ mode \in {"once", "continuous"}
    /\ pc = "start"
    /\ cycles' = IF cycles < MaxCycles THEN cycles + 1 ELSE cycles
    /\ calls' = <<[op |-> "serial"]>>
    /\ pc' = "serial_wait"
    /\ result' = "none"
    /\ sleeps' = 0
    /\ data' = NullBody
    /\ lines' = <<>>
    /\ post_status' = "none"
    /\ serial_outcome' = "none"
    /\ auth_result' = "none"
    /\ UNCHANGED <<mode, default_serial, pvs_serial, auth_token, stop_logged, interrupted,
                   arg, out, out2>>

\* a slip of the lookup: the 200-without-values branch forgets the default
serial_lookup_DefaultOnlyOnNon200(answer, default, current) ==
    IF answer.kind = "exception" THEN [ok |-> FALSE, serial |-> current]
    ELSE IF answer.kind = "value" THEN [ok |-> TRUE, serial |-> answer.v]
    ELSE IF answer.kind = "non200" /\ Truthy(default) THEN [ok |-> TRUE, serial |-> default]
    ELSE [ok |-> FALSE, serial |-> current]

\* a slip of the lookup: a failed lookup without a default serial goes on
\* with the serial of the previous cycle (or the built-in password)
serial_lookup_NeverFails(answer, default, current) ==
    IF answer.kind = "exception" THEN [ok |-> FALSE, serial |-> current]
    ELSE IF answer.kind = "value" THEN [ok |-> TRUE, serial |-> answer.v]
    ELSE IF Truthy(default) THEN [ok |-> TRUE, serial |-> default]
    ELSE [ok |-> TRUE, serial |-> current]

\* the first half of authenticate: what the answer to the serial-number
\* request makes of self.pvs_serial, and whether authenticate goes on
serial_lookup(answer, default, current) ==
    IF answer.kind = "exception" THEN [ok |-> FALSE, serial |-> current]
    ELSE IF answer.kind = "value" THEN [ok |-> TRUE, serial |-> answer.v]
    ELSE IF Truthy(default) THEN [ok |-> TRUE, serial |-> default]
    ELSE [ok |-> FALSE, serial |-> current]

\* password = self.pvs_serial[-5:] if self.pvs_serial else "F1084"
login_password(serial) ==
    IF Truthy(serial) THEN LastN(serial.v, 5) ELSE <<"F", "1", "0", "8", "4">>

\* the serial-number request answers; authenticate either returns False
\* (and run_once with it) or issues the login request
SerialResponse ==
    /\ pc = "serial_wait"
    /\ \E answer \in SerialAnswers :
          LET r == serial_lookup(answer, default_serial, pvs_serial)
          IN /\ serial_outcome' = answer.kind
             /\ pvs_serial' = r.serial
             /\ IF r.ok
                THEN /\ calls' = Append(calls, [op |-> "login",
                                                password |-> login_password(r.serial)])
                     /\ pc' = "login_wait"
                     /\ UNCHANGED <<result, sleeps, auth_result>>
                ELSE /\ auth_result' = "false"
                     /\ calls' = calls
                     /\ Finish("false")
    /\ UNCHANGED <<mode, default_serial, auth_token, cycles, stop_logged, data, lines,
                   post_status, interrupted, arg, out, out2>>

\* a slip of authenticate: a login that fails is tried once more at once
LoginResponse_RetriesInline ==
    /\ pc = "login_wait"
    /\ \E answer \in LoginAnswers :
          IF answer = "session"
          THEN /\ auth_token' = Some("session")
               /\ auth_result' = "true"
               /\ calls' = Append(calls, [op |-> "snapshot"])
               /\ pc' = "snapshot_wait"
               /\ UNCHANGED <<result, sleeps>>
          ELSE IF Len(calls) < 3
          THEN /\ calls' = Append(calls, calls[Len(calls)])
               /\ UNCHANGED <<auth_token, auth_result, pc, result, sleeps>>
          ELSE /\ auth_result' = "false"
               /\ Finish("false")
               /\ UNCHANGED <<auth_token, calls>>
    /\ UNCHANGED <<mode, default_serial, pvs_serial, cycles, stop_logged, data, lines,
                   post_status, interrupted, serial_outcome, arg, out, out2>>

\* the login request answers; on a 200 with a session authenticate returns
\* True and get_all_data issues the snapshot request
LoginResponse ==
    /\ pc = "login_wait"
    /\ \E answer \in LoginAnswers :
          IF answer = "session"
          THEN /\ auth_token' = Some("session")
               /\ auth_result' = "true"
               /\ calls' = Append(calls, [op |-> "snapshot"])
               /\ pc' = "snapshot_wait"
               /\ UNCHANGED <<result, sleeps>>
          ELSE /\ auth_result' = "false"
               /\ Finish("false")
               /\ UNCHANGED <<auth_token, calls>>
    /\ UNCHANGED <<mode, default_serial, pvs_serial, cycles, stop_logged, data, lines,
                   post_status, interrupted, serial_outcome, arg, out, out2>>

\* the snapshot request answers; run_once checks the data, builds the
\* records and calls write_to_influxdb, which validates and issues the POST
SnapshotResponse ==
    /\ pc = "snapshot_wait"
    /\ \E answer \in SnapshotAnswers :
          IF answer.kind # "ok"
          THEN /\ Finish("false")
               /\ UNCHANGED <<data, lines, calls>>
          ELSE /\ data' = answer.body
               /\ IF Falsy(answer.body)
                  THEN /\ Finish("false")
                       /\ UNCHANGED <<lines, calls>>
                  ELSE IF answer.body.kind # "dict"
                  THEN \* data.get raises AttributeError in process_data
                       /\ Finish("raised")
                       /\ UNCHANGED <<lines, calls>>
                  ELSE \E timestamp \in Timestamps,
                          mo \in Orders(device_indices(answer.body.d, "meter")),
                          io \in Orders(device_indices(answer.body.d, "inverter")) :
                          LET built == process_data(answer.body.d, timestamp, mo, io)
                              w == write_to_influxdb(built)
                          IN /\ lines' = built
                             /\ IF built = <<>>
                                THEN Finish("false") /\ calls' = calls
                                ELSE IF w.post
                                THEN /\ calls' = Append(calls, [op |-> "post",
                                                                payload |-> w.payload])
                                     /\ pc' = "post_wait"
                                     /\ UNCHANGED <<result, sleeps>>
                                ELSE Finish("true") /\ calls' = calls
    /\ UNCHANGED <<mode, default_serial, pvs_serial, auth_token, cycles, stop_logged,
                   post_status, interrupted, serial_outcome, auth_result, arg, out, out2>>

\* the POST answers; write_to_influxdb logs the outcome and returns None,
\* run_once logs completion and returns True
PostResponse ==
    /\ mode \in {"once", "continuous"}
    /\ pc = "post_wait"
    /\ \E r \in PostOutcomes : post_status' = r
    /\ Finish("true")
    /\ UNCHANGED <<mode, default_serial, pvs_serial, auth_token, calls, cycles, stop_logged,
                   data, lines, interrupted, serial_outcome, auth_result, arg, out, out2>>

\* time.sleep(interval) returns and the while loop starts over
SleepDone ==
    /\ pc \in {"sleep", "sleep_exc"}
    /\ pc' = "start"
    /\ UNCHANGED <<mode, default_serial, pvs_serial, auth_token, calls, result, cycles,
                   sleeps, stop_logged, data, lines, post_status, interrupted,
                   serial_outcome, auth_result, arg, out, out2>>

\* KeyboardInterrupt is raised while the driver waits in a request or in
\* time.sleep.  No 'except Exception' catches it.  In run_continuous the
\* 'except KeyboardInterrupt' clause covers the try block (run_once and the
\* sleep after it) and not the sleep inside the 'except Exception' handler.
KeyboardInterrupt ==
    /\ mode \in {"once", "continuous"}
    /\ pc \in Waiting \cup {"sleep", "sleep_exc"}
    /\ interrupted' = TRUE
    /\ IF mode = "continuous" /\ pc # "sleep_exc"
       THEN pc' = "stopped" /\ stop_logged' = TRUE
       ELSE pc' = "propagated" /\ stop_logged' = stop_logged
    /\ UNCHANGED <<mode, default_serial, pvs_serial, auth_token, calls, result, cycles,
                   sleeps, data, lines, post_status, serial_outcome, auth_result,
                   arg, out, out2>>

Progress ==
    StartCycle \/ SerialResponse \/ LoginResponse \/ SnapshotResponse \/ PostResponse
    \/ SleepDone

Next == Progress \/ KeyboardInterrupt

Spec == Init /\ [][Next]_vars

\* every request has a connect and a read timeout and time.sleep returns
\* after the interval, so a step that is possible is eventually taken
FairSpec == Spec /\ WF_vars(Progress)

(***************************************************************************)
(* C2, C8                                                                  *)
(***************************************************************************)
Posts == SelectSeq(calls, LAMBDA c : c.op = "post")

\* payload.split('\n')
RECURSIVE SplitNewlineAcc(_, _, _)
SplitNewlineAcc(s, cur, acc) ==
    IF s = <<>> THEN Append(acc, cur)
    ELSE IF Head(s) = "\n" THEN SplitNewlineAcc(Tail(s), <<>>, Append(acc, cur))
    ELSE SplitNewlineAcc(Tail(s), Append(cur, Head(s)), acc)

\* C2: for a non-empty batch passed to write_to_influxdb, one invalid line
\* means no POST at all; a POST is issued only when every line is valid, and
\* that single POST carries every line of the batch.
C2_AllOrNothing ==
    (mode = "write" /\ pc \in {"post_wait", "returned"} /\ lines # <<>>) =>
        /\ (\E i \in 1..Len(lines) : ~validate_influxdb_line(lines[i])) => Posts = <<>>
        /\ Posts # <<>> =>
              /\ \A i \in 1..Len(lines) : validate_influxdb_line(lines[i])
              /\ Len(Posts) = 1
              /\ SplitNewlineAcc(Posts[1].payload, <<>>, <<>>) = lines

\* a batch of three lines, the middle one malformed, was handled without a POST
C2_Witness ==
    /\ mode = "write"
    /\ pc = "returned"
    /\ Len(lines) = 3
    /\ validate_influxdb_line(lines[1])
    /\ ~validate_influxdb_line(lines[2])
    /\ validate_influxdb_line(lines[3])
    /\ Posts = <<>>

Tokens(line) == Split(line)

\* the field segment as the claim words it: the tokens after the first one,
\* without the final token when that is purely numeric and there are more
\* than two tokens
ClaimFieldSegment(line) ==
    LET t == Tokens(line)
    IN IF Len(t) > 2 /\ IsDigit(t[Len(t)])
       THEN Concat(SubSeq(t, 2, Len(t) - 1))
       ELSE Concat(SubSeq(t, 2, Len(t)))

\* C8: validate_influxdb_line rejects the empty string, a line of fewer than
\* two tokens, a line whose measurement name is empty and a line whose field
\* segment has no '='; it accepts the line of the self test.
C8_Rejects ==
    (mode = "validate" /\ pc = "done") =>
        /\ arg = <<>> => out = Some(FALSE)
        /\ Len(Tokens(arg)) < 2 => out = Some(FALSE)
        /\ (Len(Tokens(arg)) >= 1 /\ BeforeComma(Tokens(arg)[1]) = <<>>) => out = Some(FALSE)
        /\ ~Contains(ClaimFieldSegment(arg), "=") => out = Some(FALSE)
        /\ arg = SampleLine => out = Some(TRUE)

\* a three-token line with a numeric last token and no '=' was rejected
C8_Witness ==
    /\ mode = "validate"
    /\ pc = "done"
    /\ arg = <<"m", " ", "m", " ", "1">>
    /\ out = Some(FALSE)

(***************************************************************************)
(* C6, C7, C9                                                              *)
(***************************************************************************)
Built == mode = "build" /\ pc = "built"

Measurement(line) == line[1]

\* positions of the plain space characters of a line
Spaces(line) == {i \in 1..Len(line) : line[i] = " "}
Max(S) == CHOOSE x \in S : \A y \in S : y <= x

\* the field set of a record: the text between the timestamp's separating
\* space and the space before it
FieldSet(line) ==
    LET last == Max(Spaces(line))
        prev == Max(Spaces(line) \ {last})
    IN SubSeq(line, prev + 1, last - 1)

\* the first atom of the value of tag key in a record, or "" without that tag
TagValue(line, key) ==
    LET at == {j \in 1..(Len(line) - 3) :
                  line[j] = "," /\ line[j + 1] = key /\ line[j + 2] = "="}
    IN IF at = {} THEN "" ELSE line[Max(at) + 3]

RecordsOf(measurement, serial) ==
    {i \in 1..Len(lines) :
        Measurement(lines[i]) = measurement /\ TagValue(lines[i], "serial") = serial}

NoTelemetryParses(class, idx, table) ==
    \A i \in 1..Len(table) :
        format_number(Get(data.d, DevKey(class, idx, table[i][2]))) = NoneV

SerialOf(class, idx) == GetStr(data.d, DevKey(class, idx, "sn"))
ModelOf(class, idx) == GetStr(data.d, DevKey(class, idx, "prodMdlNm"))

\* C6: every line process_data returns has a non-empty field set, and a
\* device none of whose telemetry values parses has no pvs_inverter /
\* pvs_power_meter record.
C6_NeverZeroFields ==
    Built =>
        /\ \A i \in 1..Len(lines) :
              /\ Cardinality(Spaces(lines[i])) >= 2
              /\ FieldSet(lines[i]) # <<>>
              /\ Contains(FieldSet(lines[i]), "=")
              /\ FieldSet(lines[i])[Len(FieldSet(lines[i]))] # "="
        /\ \A idx \in device_indices(data.d, "inverter") :
              (SerialOf("inverter", idx) # <<>> /\ NoTelemetryParses("inverter", idx, InverterFieldKeys))
                  => RecordsOf("pvs_inverter", SerialOf("inverter", idx)[1]) = {}
        /\ \A idx \in device_indices(data.d, "meter") :
              (SerialOf("meter", idx) # <<>> /\ NoTelemetryParses("meter", idx, MeterFieldKeys))
                  => RecordsOf("pvs_power_meter", SerialOf("meter", idx)[1]) = {}

\* an inverter with serial and model whose telemetry is "nan" and "x" has a
\* pvs_device_state record and no pvs_inverter record
C6_Witness ==
    /\ Built
    /\ SerialOf("inverter", "0") # <<>>
    /\ ModelOf("inverter", "0") # <<>>
    /\ Get(data.d, DevKey("inverter", "0", "freqHz")) = Some(<<"n", "a", "n">>)
    /\ NoTelemetryParses("inverter", "0", InverterFieldKeys)
    /\ RecordsOf("pvs_device_state", SerialOf("inverter", "0")[1]) # {}
    /\ RecordsOf("pvs_inverter", SerialOf("inverter", "0")[1]) = {}

\* C7: validate_influxdb_line accepts every line process_data produces, so
\* write_to_influxdb never aborts a batch built by process_data.
C7_BuilderLinesAccepted ==
    Built =>
        /\ \A i \in 1..Len(lines) : validate_influxdb_line(lines[i])
        /\ write_to_influxdb(lines).post

\* a built batch with a record without tags and a record that whitespace
\* splitting breaks into more than three tokens
C7_Witness ==
    /\ Built
    /\ \E i \in 1..Len(lines) : lines[i][2] = " "
    /\ \E i \in 1..Len(lines) :
          /\ Measurement(lines[i]) = "pvs_supervisor"
          /\ Len(Split(lines[i])) > 3
          /\ validate_influxdb_line(lines[i])

\* the mode the claim assigns to a model string
ClaimedMode(model) ==
    IF model[Len(model)] \in {"p", "P"} THEN "production"
    ELSE IF model[Len(model)] \in {"c", "C"} THEN "consumption"
    ELSE "unknown"

\* C9: the mode tag of a pvs_power_meter record is production for a model
\* ending in p or P, consumption for one ending in c or C, unknown otherwise.
C9_ModeTag ==
    Built =>
        \A idx \in device_indices(data.d, "meter") :
            (SerialOf("meter", idx) # <<>> /\ ModelOf("meter", idx) # <<>>) =>
                \A i \in RecordsOf("pvs_power_meter", SerialOf("meter", idx)[1]) :
                    TagValue(lines[i], "mode") = ClaimedMode(ModelOf("meter", idx))

\* a meter whose model ends in an upper-case P has a production record
C9_Witness ==
    /\ Built
    /\ ModelOf("meter", "0") = <<"x", "P">>
    /\ \E i \in RecordsOf("pvs_power_meter", SerialOf("meter", "0")[1]) :
          TagValue(lines[i], "mode") = "production"

(***************************************************************************)
(* C10                                                                     *)
(***************************************************************************)
HasSpecial(v) == \E i \in 1..Len(v) : v[i] \in {",", "=", " ", BS}

\* C10 (as stated): escaping an escaped tag value changes nothing, for every
\* tag value: escape_tag_value(escape_tag_value(v)) = escape_tag_value(v).
C10_Idempotent == pc = "done" => out2 = out

\* C10 (amended): escaping twice equals escaping once exactly for the tag
\* values that contain no comma, equals sign, space or backslash; for every
\* value that contains one of them the second pass yields a longer string.
C10_IdempotentOnlyOnPlain ==
    pc = "done" =>
        /\ (out2 = out) <=> ~HasSpecial(arg)
        /\ HasSpecial(arg) => Len(out2.v) > Len(out.v)

C10_Witness ==
    /\ pc = "done"
    /\ arg = <<"a", " ">>
    /\ out = Some(<<"a", BS, " ">>)
    /\ out2 = Some(<<"a", BS, BS, BS, " ">>)

(***************************************************************************)
(* C1, C3, C4, C5                                                          *)
(***************************************************************************)
\* C1: in a cycle whose serial-number request fails (non-200, or 200 without
\* a value) while no default serial is configured, authenticate returns
\* failure and the serial-number request stays the only network call.
C1_NoCallAfterSerialFailure ==
    (serial_outcome \in {"non200", "no_values"} /\ ~Truthy(default_serial)) =>
        /\ auth_result = "false"
        /\ result = "false"
        /\ calls = <<[op |-> "serial"]>>
        /\ pc \notin Waiting

\* a continuous-mode cycle ended at the failed serial request and sleeps
C1_Witness ==
    /\ mode = "continuous"
    /\ default_serial = NoneV
    /\ serial_outcome = "non200"
    /\ pc = "sleep"
    /\ auth_result = "false"
    /\ calls = <<[op |-> "serial"]>>

\* C3: run_once returns success only if authentication, the fetch, the
\* validation of the batch and the write to the sink all succeeded.
C3_SuccessOnlyIfAllSucceeded ==
    result = "true" =>
        /\ auth_result = "true"
        /\ data.kind = "dict"
        /\ Posts # <<>>
        /\ post_status = "ok"

\* C4: in continuous mode nothing but an interrupt ends the loop; every
\* cycle, however it ended, is followed by exactly one sleep and then by the
\* next cycle, which always eventually starts unless an interrupt arrives.
C4_LoopGoesOn ==
    /\ []((mode = "continuous" /\ pc \in {"returned", "raised", "stopped", "propagated"})
             => interrupted)
    /\ [][(mode = "continuous" /\ result = "none" /\ result' # "none")
             => (pc' \in {"sleep", "sleep_exc"} /\ sleeps' = 1)]_vars
    /\ [][(mode = "continuous" /\ pc = "start" /\ pc' # "start" /\ cycles >= 1)
             => (sleeps = 1 /\ result # "none" /\ pc' = "serial_wait")]_vars
    /\ []<>(mode = "continuous" => (pc = "start" \/ interrupted))

\* a second cycle ran after the first, and the loop sleeps after it raised
C4_Witness ==
    /\ mode = "continuous"
    /\ cycles = 2
    /\ pc = "sleep_exc"
    /\ result = "raised"
    /\ sleeps = 1
    /\ ~interrupted

\* C5: in continuous mode an interrupt, wherever it arrives, makes
\* run_continuous log the stop and return normally.
C5_InterruptStopsCleanly ==
    (mode = "continuous" /\ interrupted) => (pc = "stopped" /\ stop_logged)

(***************************************************************************)
(* C11                                                                     *)
(***************************************************************************)
\* C11: escape_tag_value is injective: two distinct tag values over an
\* alphabet with comma, equals sign, space and backslash never escape to the
\* same string.
C11_Injective ==
    (mode = "escape_pair" /\ pc = "done") =>
        (arg[1] # arg[2] => out.v[1] # out.v[2])

\* a comma and a backslash followed by a comma were escaped to different strings
C11_Witness ==
    /\ mode = "escape_pair"
    /\ pc = "done"
    /\ arg = << <<",">>, <<BS, ",">> >>
    /\ out = Some(<< <<BS, ",">>, <<BS, BS, BS, ",">> >>)

(***************************************************************************)
(* C12                                                                     *)
(***************************************************************************)
Logins == SelectSeq(calls, LAMBDA c : c.op = "login")
HardcodedPassword == <<"F", "1", "0", "8", "4">>

\* the serial lookup of the current cycle ended without a usable serial
LookupFailed ==
    \/ serial_outcome \in {"non200", "no_values", "exception"}
    \/ serial_outcome = "value" /\ ~Truthy(pvs_serial)

DeviceTypeAtom(class) == IF class = "meter" THEN "Power" ELSE "Inverter"

\* the device indices of a class whose serial and model are both non-empty
Qualified(class) ==
    {idx \in device_indices(data.d, class) :
        SerialOf(class, idx) # <<>> /\ ModelOf(class, idx) # <<>>}

\* the records of a measurement that carry the device_type of a class
ClassRecords(measurement, class) ==
    {i \in 1..Len(lines) :
        /\ Measurement(lines[i]) = measurement
        /\ TagValue(lines[i], "device_type") = DeviceTypeAtom(class)}

\* C13: per device class, each index with non-empty serial and model has
\* exactly one pvs_device_state record and at most one telemetry record, and
\* an index whose serial or model is missing or empty has no record at all,
\* however many keys the index has.
C13_OneStatePerDevice ==
    Built =>
        \A class \in {"meter", "inverter"} :
            /\ \A idx \in Qualified(class) :
                  /\ Cardinality(RecordsOf("pvs_device_state", SerialOf(class, idx)[1])) = 1
                  /\ Cardinality(RecordsOf("pvs_inverter", SerialOf(class, idx)[1])) <= 1
                  /\ Cardinality(RecordsOf("pvs_power_meter", SerialOf(class, idx)[1])) <= 1
            /\ Cardinality(ClassRecords("pvs_device_state", class))
                  = Cardinality(Qualified(class))
            /\ Cardinality(ClassRecords("pvs_inverter", class)
                           \cup ClassRecords("pvs_power_meter", class))
                  <= Cardinality(Qualified(class))
            /\ \A idx \in device_indices(data.d, class) \ Qualified(class) :
                  SerialOf(class, idx) # <<>> =>
                      \A i \in 1..Len(lines) :
                          Measurement(lines[i]) \in
                              {"pvs_device_state", "pvs_inverter", "pvs_power_meter"}
                          => TagValue(lines[i], "serial") # SerialOf(class, idx)[1]

\* two meters with serial and model have one pvs_device_state record each,
\* and the inverter, which has a serial and telemetry but no model, has none
C13_Witness ==
    /\ Built
    /\ Qualified("meter") = {"0", "1"}
    /\ device_indices(data.d, "inverter") = {"0"}
    /\ Qualified("inverter") = {}
    /\ Cardinality(ClassRecords("pvs_device_state", "meter")) = 2
    /\ ClassRecords("pvs_device_state", "inverter") = {}
    /\ ClassRecords("pvs_inverter", "inverter") = {}

(***************************************************************************)
(* C14                                                                     *)
(***************************************************************************)
RECURSIVE SplitCommaAcc(_, _, _)
SplitCommaAcc(s, cur, acc) ==
    IF s = <<>> THEN acc \cup {cur}
    ELSE IF Head(s) = "," THEN SplitCommaAcc(Tail(s), <<>>, acc \cup {cur})
    ELSE SplitCommaAcc(Tail(s), Append(cur, Head(s)), acc)

\* the fields of a record: the comma-separated parts of its field set
FieldsOf(line) == SplitCommaAcc(FieldSet(line), <<>>, {})

\* a snapshot value that holds a number: present, not "", not the literal
\* "nan", and accepted by float()
HoldsNumber(value) ==
    /\ value # NoneV
    /\ value.v # <<>>
    /\ value.v # <<"n", "a", "n">>
    /\ ParseFloat(value.v) # NoneV

\* the fields the telemetry keys of meter idx that hold a number stand for
NumericMeterFields(idx) ==
    {<<MeterFieldKeys[i][1], "=">>
        \o FormatValue(ParseFloat(Get(data.d, DevKey("meter", idx, MeterFieldKeys[i][2])).v)) :
        i \in {j \in 1..Len(MeterFieldKeys) :
                  HoldsNumber(Get(data.d, DevKey("meter", idx, MeterFieldKeys[j][2])))}}

\* C14: a meter with non-empty serial and model has exactly one
\* pvs_power_meter record if one of its telemetry keys holds a number and
\* none otherwise, and that record has a field for exactly the keys that
\* hold a number; the sample snapshot of the self-test yields exactly one
\* pvs_power_meter record, tagged mode=production, with
\* p_3phsum_kw=0.013776.
C14_MeterFieldsAreTheNumericKeys ==
    Built =>
        /\ \A idx \in Qualified("meter") :
              LET recs == RecordsOf("pvs_power_meter", SerialOf("meter", idx)[1])
              IN /\ Cardinality(recs) = IF NumericMeterFields(idx) = {} THEN 0 ELSE 1
                 /\ \A i \in recs : FieldsOf(lines[i]) = NumericMeterFields(idx)
        /\ data.d = SampleData =>
              LET recs == {i \in 1..Len(lines) : Measurement(lines[i]) = "pvs_power_meter"}
              IN /\ Cardinality(recs) = 1
                 /\ \A i \in recs :
                       /\ TagValue(lines[i], "mode") = "production"
                       /\ <<"p_3phsum_kw", "=", "0", ".", "0", "1", "3", "7", "7", "6">>
                              \in FieldsOf(lines[i])

\* the sample snapshot was processed and gave one pvs_power_meter record
\* with the three numeric fields of its meter
C14_Witness ==
    /\ Built
    /\ data.d = SampleData
    /\ \E i \in 1..Len(lines) :
          /\ Measurement(lines[i]) = "pvs_power_meter"
          /\ Cardinality(FieldsOf(lines[i])) = 3
          /\ TagValue(lines[i], "mode") = "production"

(***************************************************************************)
(* C15                                                                     *)
(***************************************************************************)
\* C15: the password of a login request is the last 5 characters of the
\* session serial when the serial has at least 5 characters, and "F1084"
\* when the serial is absent, empty or shorter than 5 characters.
C15_PasswordSegment ==
    \A i \in 1..Len(Logins) :
        Logins[i].password =
            IF pvs_serial # NoneV /\ Len(pvs_serial.v) >= 5
            THEN LastN(pvs_serial.v, 5)
            ELSE HardcodedPassword

(***************************************************************************)
(* C16                                                                     *)
(***************************************************************************)
\* C16: whenever the snapshot request answers 200 with a mapping, a mapping
\* with no keys included, the fetch is a success: the cycle does not end in
\* failure, records are built and a POST to the sink is issued.
C16_MappingIsFetchSuccess ==
    data.kind = "dict" =>
        /\ result # "false"
        /\ lines # <<>>
        /\ Posts # <<>>

(***************************************************************************)
(* C17                                                                     *)
(***************************************************************************)
\* the requests of the current cycle, by kind, in the order they were issued
Ops == [i \in 1..Len(calls) |-> calls[i].op]
RequestOrder == <<"serial", "login", "snapshot", "post">>
Issued(op) == \E i \in 1..Len(calls) : calls[i].op = op

\* at most one request of each kind, in the order serial, login, snapshot,
\* POST, with none left out
OneOfEachInOrder ==
    /\ Len(Ops) <= Len(RequestOrder)
    /\ Ops = SubSeq(RequestOrder, 1, Len(Ops))

\* the snapshot request follows a login that gave a session, and the POST a
\* snapshot request that gave a mapping from which records were built
LaterRequestsFollowSuccess ==
    /\ Issued("snapshot") => auth_result = "true"
    /\ Issued("post") => (data.kind = "dict" /\ lines # <<>>)

\* C17 (as stated): a cycle issues at most one request of each kind, in
\* order, and each only if the one before it succeeded.
C17_EachOnlyAfterSuccess ==
    /\ OneOfEachInOrder
    /\ LaterRequestsFollowSuccess
    /\ Issued("login") => serial_outcome = "value"

\* C17 (amended): a cycle issues at most one request of each kind, in order;
\* the snapshot request and the POST are issued only if the request before
\* them succeeded; the login request is issued if the serial-number request
\* answered 200 with a value, and also after a serial-number request that
\* answered non-200 or without a value when a default serial is configured,
\* never after one that raised.
C17_NoInlineRetry ==
    /\ OneOfEachInOrder
    /\ LaterRequestsFollowSuccess
    /\ Issued("login") =>
          \/ serial_outcome = "value"
          \/ serial_outcome \in {"non200", "no_values"} /\ Truthy(default_serial)

\* in a second cycle the serial-number request answered non-200, the default
\* serial was taken, and login, snapshot and POST followed, one of each
C17_Witness ==
    /\ cycles = 2
    /\ serial_outcome = "non200"
    /\ Truthy(default_serial)
    /\ Ops = RequestOrder

(***************************************************************************)
(* C18                                                                     *)
(***************************************************************************)
SystemMeasurements ==
    {"pvs_comm_interface", "pvs_comm_system", "pvs_grid_profile",
     "pvs_session_start", "pvs_supervisor"}

LinesOf(measurement) == {i \in 1..Len(lines) : Measurement(lines[i]) = measurement}

\* C18: for every snapshot, the empty one included, process_data returns a
\* non-empty list with exactly one record of each of pvs_comm_interface,
\* pvs_comm_system, pvs_grid_profile, pvs_session_start and pvs_supervisor;
\* the session_start record carries ok=1 and the supervisor record its three
\* constant fields.
C18_SystemRecordsAlwaysPresent ==
    Built =>
        /\ lines # <<>>
        /\ \A m \in SystemMeasurements : Cardinality(LinesOf(m)) = 1
        /\ \A i \in LinesOf("pvs_session_start") : <<"ok", "=", "1">> \in FieldsOf(lines[i])
        /\ \A i \in LinesOf("pvs_supervisor") :
              {<<"dl_scan_time", "=", "1", "0">>, <<"dl_skipped_scans", "=", "0">>,
               <<"dl_untransmitted", "=", "0">>} \subseteq FieldsOf(lines[i])

\* the empty snapshot gave exactly the five system records, and its
\* session_start record has the constant field only
C18_Witness ==
    /\ Built
    /\ data.d = EmptyDict
    /\ Len(lines) = 5
    /\ \A i \in LinesOf("pvs_session_start") : FieldsOf(lines[i]) = {<<"ok", "=", "1">>}

====
